---- MODULE Spec2Model ----
(***************************************************************************)
(* snail-init (src/src/index.ts): scaffolding of a plugin project from a   *)
(* template tree.  Strings are sequences of one-character strings, paths   *)
(* are sequences of names, a file system is a function from paths to       *)
(* nodes.                                                                  *)
(***************************************************************************)
EXTENDS Integers, Sequences, FiniteSets, TLC

VARIABLES
  pc,             \* where the run stands in createProjectFlow
  run,            \* how many times the program was started
  projectNameArg, \* the [project-name] argument, optional
  cliOptions,     \* the flags: directory, pluginName, description, icon
  typed,          \* what the user typed at each question, optional
  questions,      \* the questions buildPromptQuestions returned
  pending,        \* the questions not yet answered
  answers,        \* the answers prompts() collected
  projectName,    \* the normalised project name
  targetDir,      \* the resolved target directory, a path
  context,        \* the TemplateContext
  template,       \* the tree under TEMPLATE_DIR, read only
  fs,             \* the file system under the working directory
  stack,          \* the active calls of copyTemplateTree
  error,          \* the message of the error the run ended with
  ops,            \* the mkdir and writeFile calls of this run, counted
  guardOk,        \* ensureDirectoryIsEmpty has returned in this run
  slugPc, slugIn, slugOut, slugTwice

flowVars == <<pc, run, projectNameArg, cliOptions, typed, questions, pending,
              answers, projectName, targetDir, context, template, fs, stack,
              error, ops, guardOk>>

slugVars == <<slugPc, slugIn, slugOut, slugTwice>>

vars == <<flowVars, slugVars>>

(***************************************************************************)
(* Characters                                                              *)
(***************************************************************************)
UpperSeq == <<"A","B","C","D","E","F","G","H","I","J","K","L","M",
              "N","O","P","Q","R","S","T","U","V","W","X","Y","Z">>

LowerSeq == <<"a","b","c","d","e","f","g","h","i","j","k","l","m",
              "n","o","p","q","r","s","t","u","v","w","x","y","z">>

Digits == {"0","1","2","3","4","5","6","7","8","9"}

LowerLetters == {LowerSeq[i] : i \in DOMAIN LowerSeq}

\* String.prototype.toLowerCase, one character
ToLowerChar(c) ==
  IF \E i \in DOMAIN UpperSeq : UpperSeq[i] = c
    THEN LowerSeq[CHOOSE i \in DOMAIN UpperSeq : UpperSeq[i] = c]
    ELSE c

\* String.prototype.toUpperCase, one character
ToUpperChar(c) ==
  IF \E i \in DOMAIN LowerSeq : LowerSeq[i] = c
    THEN UpperSeq[CHOOSE i \in DOMAIN LowerSeq : LowerSeq[i] = c]
    ELSE c

toLowerCase(s) == [i \in DOMAIN s |-> ToLowerChar(s[i])]

\* the regular expression class [a-z0-9]
IsSlugChar(c) == c \in LowerLetters \cup Digits

RECURSIVE DropLeading(_, _)
\* s without its longest prefix of characters in the set cs
DropLeading(s, cs) ==
  IF s # <<>> /\ Head(s) \in cs THEN DropLeading(Tail(s), cs) ELSE s

RECURSIVE DropTrailing(_, _)
\* s without its longest suffix of characters in the set cs
DropTrailing(s, cs) ==
  IF s # <<>> /\ s[Len(s)] \in cs
    THEN DropTrailing(SubSeq(s, 1, Len(s) - 1), cs)
    ELSE s

Whitespace == {" ", "\t", "\n"}

\* String.prototype.trim
trim(s) == DropTrailing(DropLeading(s, Whitespace), Whitespace)

(***************************************************************************)
(* toSlug                                                                  *)
(***************************************************************************)
RECURSIVE SkipNonSlug(_)
\* s without its longest prefix of characters outside [a-z0-9]
SkipNonSlug(s) ==
  IF s # <<>> /\ ~IsSlugChar(Head(s)) THEN SkipNonSlug(Tail(s)) ELSE s

RECURSIVE ReplaceNonSlugRuns(_)
\* .replace(/[^a-z0-9]+/g, "-")
ReplaceNonSlugRuns(s) ==
  IF s = <<>> THEN <<>>
  ELSE IF IsSlugChar(Head(s)) THEN <<Head(s)>> \o ReplaceNonSlugRuns(Tail(s))
  ELSE <<"-">> \o ReplaceNonSlugRuns(SkipNonSlug(Tail(s)))

\* a plausible slip: only the leading hyphens are removed
StripHyphensLeadingOnly(s) == DropLeading(s, {"-"})

\* .replace(/^-+|-+$/g, "")
StripHyphens(s) == DropTrailing(DropLeading(s, {"-"}), {"-"})

\* a plausible slip: the fallback of toDisplayName, hyphenated
FALLBACK_SLUG_Capitalised ==
  <<"S","n","a","i","l","-","P","l","u","g","i","n">>

\* the literal "snail-plugin"
FALLBACK_SLUG == <<"s","n","a","i","l","-","p","l","u","g","i","n">>

toSlug(value) ==
  LET slug == StripHyphens(ReplaceNonSlugRuns(toLowerCase(trim(value))))
  IN  IF slug = <<>> THEN FALLBACK_SLUG ELSE slug

(***************************************************************************)
(* toDisplayName                                                           *)
(***************************************************************************)
RECURSIVE ReplaceRuns(_, _, _)
\* every maximal run of characters of cs replaced by the character c
ReplaceRuns(s, cs, c) ==
  IF s = <<>> THEN <<>>
  ELSE IF Head(s) \in cs
    THEN <<c>> \o ReplaceRuns(DropLeading(Tail(s), cs), cs, c)
    ELSE <<Head(s)>> \o ReplaceRuns(Tail(s), cs, c)

RECURSIVE TakeWord(_)
\* the longest prefix of s without a space
TakeWord(s) ==
  IF s = <<>> \/ Head(s) = " " THEN <<>> ELSE <<Head(s)>> \o TakeWord(Tail(s))

RECURSIVE split(_)
\* .split(" "): the pieces between single spaces, empty pieces included
split(s) ==
  LET w == TakeWord(s)
  IN  IF Len(w) = Len(s) THEN <<w>>
      ELSE <<w>> \o split(SubSeq(s, Len(w) + 2, Len(s)))

\* .filter(Boolean) on an array of strings
filterNonEmpty(ws) == SelectSeq(ws, LAMBDA w : w # <<>>)

\* word.charAt(0).toUpperCase() + word.slice(1).toLowerCase()
Capitalise(w) == <<ToUpperChar(Head(w))>> \o toLowerCase(Tail(w))

RECURSIVE join(_)
\* .join(" ")
join(ws) ==
  IF ws = <<>> THEN <<>>
  ELSE IF Len(ws) = 1 THEN ws[1]
  ELSE ws[1] \o <<" ">> \o join(Tail(ws))

\* the literal "Snail Plugin"
FALLBACK_DISPLAY_NAME == <<"S","n","a","i","l"," ","P","l","u","g","i","n">>

toDisplayName(value) ==
  LET words == filterNonEmpty(split(trim(
                 ReplaceRuns(ReplaceRuns(value, {"_", "-"}, " "),
                             Whitespace, " "))))
  IN  IF Len(words) = 0 THEN FALLBACK_DISPLAY_NAME
      ELSE join([i \in DOMAIN words |-> Capitalise(words[i])])

(***************************************************************************)
(* Optional values: undefined is the empty sequence, a defined value v is   *)
(* the one-element sequence <<v>>.                                          *)
(***************************************************************************)
None == <<>>

Some(v) == <<v>>

\* a ?? b
Coalesce(a, b) == IF a # None THEN a ELSE b

\* the truthiness of an optional string: defined and not empty
Truthy(a) == a # None /\ a[1] # <<>>

(***************************************************************************)
(* String literals of the program                                          *)
(***************************************************************************)
\* the literal "A new Snail plugin created with snail-init"
DEFAULT_DESCRIPTION ==
  <<"A"," ","n","e","w"," ","S","n","a","i","l"," ","p","l",
     "u","g","i","n"," ","c","r","e","a","t","e","d"," ","w",
     "i","t","h"," ","s","n","a","i","l","-","i","n","i","t">>

\* the literal "null"
DEFAULT_ICON == <<"n","u","l","l">>

\* the initial value of the project name question, "snail-plugin"
INITIAL_PROJECT_NAME == <<"s","n","a","i","l","-","p","l","u","g","i","n">>

\* the ignored entry name ".DS_Store"
DS_STORE == <<".","D","S","_","S","t","o","r","e">>

\* the template marker ".hbs"
HBS_SUFFIX == <<".","h","b","s">>

\* string.endsWith(suffix)
endsWith(s, suffix) ==
  /\ Len(s) >= Len(suffix)
  /\ SubSeq(s, Len(s) - Len(suffix) + 1, Len(s)) = suffix

\* name.replace(/\.hbs$/, "")
StripHbs(name) ==
  IF endsWith(name, HBS_SUFFIX)
    THEN SubSeq(name, 1, Len(name) - Len(HBS_SUFFIX))
    ELSE name

(***************************************************************************)
(* The file system: a function from paths to nodes.  The working directory *)
(* is the path <<>> and always a directory.                                *)
(***************************************************************************)
DirNode == [kind |-> "dir", data |-> <<>>]

FileNode(data) == [kind |-> "file", data |-> data]

NoFiles == [p \in {} |-> DirNode]

\* path.join(dir, name): an empty segment is dropped
PathJoin(dir, name) == IF name = <<>> THEN dir ELSE Append(dir, name)

Parent(p) == SubSeq(p, 1, Len(p) - 1)

IsDir(f, p) == p = <<>> \/ (p \in DOMAIN f /\ f[p].kind = "dir")

\* existsSync(p)
existsSync(f, p) == p = <<>> \/ p \in DOMAIN f

\* readdir(p): the names of the entries of directory p
readdir(f, p) ==
  {q[Len(q)] : q \in {r \in DOMAIN f : Len(r) = Len(p) + 1 /\ Parent(r) = p}}

\* mkdir(p, { recursive: true }): nothing to do for a directory that exists,
\* EEXIST or ENOTDIR when a file is in the way, else p and its missing
\* ancestors are created
mkdir(f, p) ==
  LET prefixes == {SubSeq(p, 1, i) : i \in 1..Len(p)}
      blocked  == \E q \in prefixes : q \in DOMAIN f /\ f[q].kind # "dir"
      missing  == {q \in prefixes : q \notin DOMAIN f}
  IN  IF blocked THEN [err |-> "EEXIST", fs |-> f]
      ELSE [err |-> "", fs |-> [q \in missing |-> DirNode] @@ f]

\* writeFile(p, data): creates the file or replaces its content; EISDIR when
\* p is a directory, ENOENT when its parent is no directory
writeFile(f, p, data) ==
  IF IsDir(f, p) THEN [err |-> "EISDIR", fs |-> f]
  ELSE IF ~IsDir(f, Parent(p)) THEN [err |-> "ENOENT", fs |-> f]
  ELSE [err |-> "", fs |-> (p :> FileNode(data)) @@ f]

\* a plausible slip: hidden entries are not counted
ensureDirectoryIgnoringHidden(f, dir) ==
  IF ~existsSync(f, dir) THEN [err |-> "", fs |-> f]
  ELSE IF ~IsDir(f, dir) THEN [err |-> "not a directory", fs |-> f]
  ELSE IF {n \in readdir(f, dir) : Head(n) # "."} # {}
    THEN [err |-> "not empty", fs |-> f]
  ELSE [err |-> "", fs |-> f]

\* ensureDirectoryIsEmpty(dir): the error it throws ("" when it returns) and
\* the file system it leaves
ensureDirectoryIsEmpty(f, dir) ==
  IF ~existsSync(f, dir) THEN [err |-> "", fs |-> f]
  ELSE IF ~IsDir(f, dir) THEN [err |-> "not a directory", fs |-> f]
  ELSE IF readdir(f, dir) # {} THEN [err |-> "not empty", fs |-> f]
  ELSE [err |-> "", fs |-> f]

(***************************************************************************)
(* Handlebars.compile(text)(context), for templates of text and             *)
(* {{identifier}} placeholders, compiled with the default options           *)
(***************************************************************************)
\* the fields of TemplateContext, by name
ContextKeys ==
  << [key |-> <<"p","l","u","g","i","n","N","a","m","e">>,
      field |-> "pluginName"],
     [key |-> <<"p","l","u","g","i","n","D","e","s","c","r","i","p","t","i","o","n">>,
      field |-> "pluginDescription"],
     [key |-> <<"p","l","u","g","i","n","I","c","o","n">>,
      field |-> "pluginIcon"],
     [key |-> <<"p","r","o","j","e","c","t","N","a","m","e">>,
      field |-> "projectName"],
     [key |-> <<"p","r","o","j","e","c","t","S","l","u","g">>,
      field |-> "projectSlug"] >>

\* Handlebars.Utils.escapeExpression, one character
EscapeChar(c) ==
  CASE c = "&" -> <<"&","a","m","p",";">>
    [] c = "<" -> <<"&","l","t",";">>
    [] c = ">" -> <<"&","g","t",";">>
    [] OTHER   -> <<c>>

RECURSIVE EscapeExpression(_)
EscapeExpression(s) ==
  IF s = <<>> THEN <<>> ELSE EscapeChar(Head(s)) \o EscapeExpression(Tail(s))

\* the value of {{id}}: the escaped field, or nothing when the context has
\* no such field (the templates are not compiled with strict: true)
Lookup(ctx, id) ==
  IF \E i \in DOMAIN ContextKeys : ContextKeys[i].key = id
    THEN EscapeExpression(
           ctx[ContextKeys[CHOOSE i \in DOMAIN ContextKeys :
                             ContextKeys[i].key = id].field])
    ELSE <<>>

\* the index of the first "}}" of s, 0 when there is none
CloseAt(s) ==
  LET at == {i \in 1..(Len(s) - 1) : s[i] = "}" /\ s[i + 1] = "}"}
  IN  IF at = {} THEN 0 ELSE CHOOSE i \in at : \A j \in at : i <= j

RECURSIVE Render(_, _)
\* the rendering of text: [err, out], err = "" when the template compiles
Render(text, ctx) ==
  IF text = <<>> THEN [err |-> "", out |-> <<>>]
  ELSE IF Len(text) >= 2 /\ text[1] = "{" /\ text[2] = "{"
    THEN LET body  == SubSeq(text, 3, Len(text))
             close == CloseAt(body)
             id    == trim(SubSeq(body, 1, close - 1))
             rest  == Render(SubSeq(body, close + 2, Len(body)), ctx)
         IN  IF close = 0 \/ id = <<>>
               THEN [err |-> "Parse error", out |-> <<>>]
             ELSE IF rest.err # "" THEN rest
             ELSE [err |-> "", out |-> Lookup(ctx, id) \o rest.out]
    ELSE LET rest == Render(Tail(text), ctx)
         IN  IF rest.err # "" THEN rest
             ELSE [err |-> "", out |-> <<Head(text)>> \o rest.out]

(***************************************************************************)
(* buildPromptQuestions and the text questions of prompts()                *)
(***************************************************************************)
NoAnswers ==
  [projectName |-> None, pluginName |-> None,
   pluginDescription |-> None, pluginIcon |-> None]

NoContext ==
  [pluginName |-> <<>>, pluginDescription |-> <<>>, pluginIcon |-> <<>>,
   projectName |-> <<>>, projectSlug |-> <<>>]

\* the names of the questions, in the order they are pushed
buildPromptQuestions(arg, options) ==
  (IF ~Truthy(arg) THEN <<"projectName">> ELSE <<>>)
  \o (IF ~Truthy(options.pluginName) THEN <<"pluginName">> ELSE <<>>)
  \o (IF ~Truthy(options.description) THEN <<"pluginDescription">> ELSE <<>>)
  \o (IF ~Truthy(options.icon) THEN <<"pluginIcon">> ELSE <<>>)

\* the "initial" of question q, optional
Initial(q, arg) ==
  CASE q = "projectName"       -> Some(INITIAL_PROJECT_NAME)
    [] q = "pluginName"        ->
         IF Truthy(arg) THEN Some(toDisplayName(arg[1])) ELSE None
    [] q = "pluginDescription" -> Some(DEFAULT_DESCRIPTION)
    [] q = "pluginIcon"        -> Some(DEFAULT_ICON)

\* the value a text question submits: what was typed, else its initial,
\* else the empty string
TextValue(input, initial) ==
  IF input # <<>> THEN input
  ELSE IF initial # None THEN initial[1]
  ELSE <<>>

\* the "validate" of question q
Validate(q, value) ==
  q = "projectName" => (value # <<>> /\ trim(value) # <<>>)

(***************************************************************************)
(* The inputs of a run                                                     *)
(***************************************************************************)
ProjectNameArgs == {None, Some(<<"m","y","_","p">>), Some(<<" ">>)}

Directories == {None, Some(<<"o","u","t">>)}

PluginNameFlags == {None, Some(<<>>), Some(<<"N">>)}

DescriptionFlags == {None, Some(<<"D">>)}

IconFlags == {None, Some(<<"N","U","L","L">>)}

\* what the user may type at question q; <<>> is the Enter key alone
TypedInputs(q) ==
  CASE q = "projectName"       -> {<<>>, <<"q">>}
    [] q = "pluginName"        -> {<<>>, <<"X">>}
    [] q = "pluginDescription" -> {<<>>, <<"Y">>}
    [] q = "pluginIcon"        -> {<<>>, <<"N","u","l","l">>}

\* every name the target directory can get from these inputs
TargetNames == {<<"o","u","t">>, <<"m","y","_","p">>, <<"q">>, INITIAL_PROJECT_NAME}

\* the target directories before the first run: absent, a regular file, an
\* empty directory, a directory holding one hidden file, a directory
\* holding one directory
OccupiedBy(kind) ==
  LET targets == {<<n>> : n \in TargetNames}
  IN  CASE kind = "absent" -> NoFiles
        [] kind = "file"   -> [p \in targets |-> FileNode(<<"x">>)]
        [] kind = "empty"  -> [p \in targets |-> DirNode]
        [] kind = "hidden" ->
             [p \in {Append(t, DS_STORE) : t \in targets} |-> FileNode(<<>>)]
             @@ [p \in targets |-> DirNode]
        [] kind = "subdir" ->
             [p \in {Append(t, <<"s","r","c">>) : t \in targets} |-> DirNode]
             @@ [p \in targets |-> DirNode]

TargetKinds == {"absent", "file", "empty", "hidden", "subdir"}

\* a template with a plain file, a template file that names a placeholder
\* the context does not have, a .DS_Store and a directory with a template
\* file
OfficialTemplate ==
  [exists |-> TRUE,
   nodes |->
     (<<<<"a">>>> :> FileNode(<<"h","i">>))
     @@ (<<<<"u",".","h","b","s">>>> :> FileNode(<<"{","{","a","u","t","h","o","r","}","}","!">>))
     @@ (<<DS_STORE>> :> FileNode(<<>>))
     @@ (<<<<"d">>>> :> DirNode)
     @@ (<<<<"d">>, <<"c",".","h","b","s">>>> :> FileNode(<<"{","{","p","l","u","g","i","n","I","c","o","n","}","}">>))]

\* a template whose template file does not compile
BrokenTemplate ==
  [exists |-> TRUE,
   nodes |->
     (<<<<"a">>>> :> FileNode(<<"h","i">>))
     @@ (<<<<"m",".","h","b","s">>>> :> FileNode(<<"{","{">>))]

MissingTemplate == [exists |-> FALSE, nodes |-> NoFiles]

FlowTemplates == {OfficialTemplate, BrokenTemplate, MissingTemplate}

\* the number of times the program is started on the same command line
MaxRuns == 2

NoOps == [k \in {} |-> 0]

\* one more call of op on path p
Bump(b, op, p) ==
  LET k == <<op, p>>
  IN  IF k \in DOMAIN b THEN [b EXCEPT ![k] = @ + 1] ELSE (k :> 1) @@ b

Init ==
  /\ pc = "start"
  /\ run = 1
  /\ projectNameArg \in ProjectNameArgs
  /\ cliOptions \in [directory : Directories, pluginName : PluginNameFlags,
                     description : DescriptionFlags, icon : IconFlags]
  /\ typed = NoAnswers
  /\ questions = <<>>
  /\ pending = <<>>
  /\ answers = NoAnswers
  /\ projectName = <<>>
  /\ targetDir = <<>>
  /\ context = NoContext
  /\ template \in FlowTemplates
  /\ \E kind \in TargetKinds : fs = OccupiedBy(kind)
  /\ stack = <<>>
  /\ error = ""
  /\ ops = NoOps
  /\ guardOk = FALSE
  /\ slugPc = "unused"
  /\ slugIn = <<>>
  /\ slugOut = <<>>
  /\ slugTwice = <<>>

(***************************************************************************)
(* createProjectFlow under runWithHandling                                 *)
(***************************************************************************)
\* runWithHandling: the error is printed and the process exits with 1
runWithHandling(message) ==
  /\ pc' = "exit1"
  /\ error' = message

\* ensureTemplateDirectory, buildPromptQuestions
Start ==
  /\ pc = "start"
  /\ IF ~template.exists
       THEN /\ runWithHandling("Template directory not found")
            /\ UNCHANGED <<questions, pending>>
       ELSE /\ questions' = buildPromptQuestions(projectNameArg, cliOptions)
            /\ pending' = questions'
            /\ pc' = IF questions' = <<>> THEN "resolve" ELSE "prompt"
            /\ error' = error
  /\ UNCHANGED <<run, projectNameArg, cliOptions, typed, answers, projectName,
                 targetDir, context, template, fs, stack, ops, guardOk,
                 slugVars>>

\* prompts(): the user submits the next question
Answer ==
  /\ pc = "prompt"
  /\ pending # <<>>
  /\ \E input \in TypedInputs(Head(pending)) :
       LET q     == Head(pending)
           value == TextValue(input, Initial(q, projectNameArg))
       IN  /\ Validate(q, value)
           /\ typed' = [typed EXCEPT ![q] = Some(input)]
           /\ answers' = [answers EXCEPT ![q] = Some(value)]
  /\ pending' = Tail(pending)
  /\ pc' = IF pending' = <<>> THEN "resolve" ELSE "prompt"
  /\ UNCHANGED <<run, projectNameArg, cliOptions, questions, projectName,
                 targetDir, context, template, fs, stack, error, ops, guardOk,
                 slugVars>>

\* a plausible slip: onCancel returns instead of throwing, and the flow goes
\* on with the answers it has
CancelSwallowed ==
  /\ pc = "prompt"
  /\ pending # <<>>
  /\ pc' = "resolve"
  /\ UNCHANGED <<run, projectNameArg, cliOptions, typed, questions, pending,
                 answers, projectName, targetDir, context, template, fs, stack,
                 error, ops, guardOk, slugVars>>

\* prompts(): the user cancels at a question, onCancel throws
Cancel ==
  /\ pc = "prompt"
  /\ pending # <<>>
  /\ runWithHandling("Operation cancelled.")
  /\ UNCHANGED <<run, projectNameArg, cliOptions, typed, questions, pending,
                 answers, projectName, targetDir, context, template, fs, stack,
                 ops, guardOk, slugVars>>

\* normalizeProjectName(value): the trimmed name, <<>> when it throws
normalizeProjectName(value) ==
  IF value = None THEN <<>> ELSE trim(value[1])

\* a plausible slip: the call of ensureDirectoryIsEmpty is left out
ResolveSkippingGuard ==
  /\ pc = "resolve"
  /\ LET normalized ==
           normalizeProjectName(Coalesce(projectNameArg, answers.projectName))
     IN  IF normalized = <<>>
           THEN /\ runWithHandling("A project name is required.")
                /\ UNCHANGED <<projectName, targetDir>>
           ELSE /\ projectName' = normalized
                /\ targetDir' =
                     <<Coalesce(cliOptions.directory, Some(normalized))[1]>>
                /\ pc' = "context"
                /\ error' = error
  /\ UNCHANGED <<run, projectNameArg, cliOptions, typed, questions, pending,
                 answers, context, template, fs, stack, ops, guardOk,
                 slugVars>>

\* normalizeProjectName and path.resolve
Resolve ==
  /\ pc = "resolve"
  /\ LET normalized ==
           normalizeProjectName(Coalesce(projectNameArg, answers.projectName))
     IN  IF normalized = <<>>
           THEN /\ runWithHandling("A project name is required.")
                /\ UNCHANGED <<projectName, targetDir>>
           ELSE /\ projectName' = normalized
                /\ targetDir' =
                     <<Coalesce(cliOptions.directory, Some(normalized))[1]>>
                /\ pc' = "guard"
                /\ error' = error
  /\ UNCHANGED <<run, projectNameArg, cliOptions, typed, questions, pending,
                 answers, context, template, fs, stack, ops, guardOk,
                 slugVars>>

\* await ensureDirectoryIsEmpty(targetDir)
Guard ==
  /\ pc = "guard"
  /\ LET r == ensureDirectoryIsEmpty(fs, targetDir)
     IN  /\ fs' = r.fs
         /\ IF r.err # ""
              THEN /\ runWithHandling(r.err)
                   /\ guardOk' = guardOk
              ELSE /\ guardOk' = TRUE
                   /\ pc' = "context"
                   /\ error' = error
  /\ UNCHANGED <<run, projectNameArg, cliOptions, typed, questions, pending,
                 answers, projectName, targetDir, context, template, stack,
                 ops, slugVars>>

\* pluginIcon.toLowerCase() === "null" ? "null" : pluginIcon
NormalizeIcon(icon) ==
  IF toLowerCase(icon) = <<"n","u","l","l">> THEN <<"n","u","l","l">> ELSE icon

\* the TemplateContext createProjectFlow builds
BuildContext(options, ans, name) ==
  [pluginName |->
     Coalesce(options.pluginName,
              Coalesce(ans.pluginName, Some(toDisplayName(name))))[1],
   pluginDescription |->
     Coalesce(options.description,
              Coalesce(ans.pluginDescription, Some(DEFAULT_DESCRIPTION)))[1],
   pluginIcon |->
     NormalizeIcon(Coalesce(options.icon,
                            Coalesce(ans.pluginIcon, Some(DEFAULT_ICON)))[1]),
   projectName |-> name,
   projectSlug |-> toSlug(name)]

\* the context is built
Context ==
  /\ pc = "context"
  /\ context' = BuildContext(cliOptions, answers, projectName)
  /\ pc' = "copy"
  /\ UNCHANGED <<run, projectNameArg, cliOptions, typed, questions, pending,
                 answers, projectName, targetDir, template, fs, stack, error,
                 ops, guardOk, slugVars>>

(***************************************************************************)
(* copyTemplateTree: one frame of the stack per active call, holding the   *)
(* entries its loop has not reached.  readdir fixes no order, so the loop  *)
(* may take any of them next.                                              *)
(***************************************************************************)
Top == stack[Len(stack)]

\* the frame on top of the stack without entry e
WithoutEntry(e) ==
  [stack EXCEPT ![Len(stack)].entries = @ \ {e}]

SrcNode(e) == template.nodes[Append(Top.srcDir, e)]

\* entry.isFile() ? entry.name.replace(/\.hbs$/, "") : entry.name
DestinationName(e) ==
  IF SrcNode(e).kind = "file" THEN StripHbs(e) ELSE e

DestPath(e) == PathJoin(Top.destDir, DestinationName(e))

\* copyTemplateTree(TEMPLATE_DIR, targetDir, context) is called: mkdir of the
\* destination, readdir of the source
CopyCall ==
  /\ pc = "copy"
  /\ LET made == mkdir(fs, targetDir)
     IN  /\ ops' = Bump(ops, "mkdir", targetDir)
         /\ fs' = made.fs
         /\ IF made.err # ""
              THEN /\ runWithHandling(made.err)
                   /\ stack' = stack
              ELSE /\ stack' = <<[srcDir |-> <<>>, destDir |-> targetDir,
                                  entries |-> readdir(template.nodes, <<>>)]>>
                   /\ pc' = "walk"
                   /\ error' = error
  /\ UNCHANGED <<run, projectNameArg, cliOptions, typed, questions, pending,
                 answers, projectName, targetDir, context, template, guardOk,
                 slugVars>>

\* the loop reaches an entry named .DS_Store
CopySkip ==
  /\ pc = "walk"
  /\ \E e \in Top.entries :
       /\ e = DS_STORE
       /\ stack' = WithoutEntry(e)
  /\ UNCHANGED <<pc, run, projectNameArg, cliOptions, typed, questions, pending,
                 answers, projectName, targetDir, context, template, fs, error,
                 ops, guardOk, slugVars>>

\* the loop reaches a directory: the recursive call, its mkdir and readdir
CopyDirectory ==
  /\ pc = "walk"
  /\ \E e \in Top.entries :
       /\ e # DS_STORE
       /\ SrcNode(e).kind = "dir"
       /\ LET made == mkdir(fs, DestPath(e))
          IN  /\ ops' = Bump(ops, "mkdir", DestPath(e))
              /\ fs' = made.fs
              /\ IF made.err # ""
                   THEN /\ runWithHandling(made.err)
                        /\ stack' = stack
                   ELSE /\ stack' =
                             Append(WithoutEntry(e),
                                    [srcDir |-> Append(Top.srcDir, e),
                                     destDir |-> DestPath(e),
                                     entries |->
                                       readdir(template.nodes,
                                               Append(Top.srcDir, e))])
                        /\ pc' = pc
                        /\ error' = error
  /\ UNCHANGED <<run, projectNameArg, cliOptions, typed, questions, pending,
                 answers, projectName, targetDir, context, template, guardOk,
                 slugVars>>

\* the loop reaches a file whose name ends in .hbs: it is rendered, and the
\* rendering written
CopyTemplateFile ==
  /\ pc = "walk"
  /\ \E e \in Top.entries :
       /\ e # DS_STORE
       /\ SrcNode(e).kind = "file"
       /\ endsWith(e, HBS_SUFFIX)
       /\ LET output  == Render(SrcNode(e).data, context)
              written == writeFile(fs, DestPath(e), output.out)
          IN  IF output.err # ""
                THEN /\ runWithHandling(output.err)
                     /\ UNCHANGED <<fs, ops, stack>>
              ELSE /\ ops' = Bump(ops, "writeFile", DestPath(e))
                   /\ fs' = written.fs
                   /\ IF written.err # ""
                        THEN /\ runWithHandling(written.err)
                             /\ stack' = stack
                        ELSE /\ stack' = WithoutEntry(e)
                             /\ pc' = pc
                             /\ error' = error
  /\ UNCHANGED <<run, projectNameArg, cliOptions, typed, questions, pending,
                 answers, projectName, targetDir, context, template, guardOk,
                 slugVars>>

\* the loop reaches any other entry: its bytes are copied
CopyRawFile ==
  /\ pc = "walk"
  /\ \E e \in Top.entries :
       /\ e # DS_STORE
       /\ SrcNode(e).kind # "dir"
       /\ ~(SrcNode(e).kind = "file" /\ endsWith(e, HBS_SUFFIX))
       /\ LET written == writeFile(fs, DestPath(e), SrcNode(e).data)
          IN  /\ ops' = Bump(ops, "writeFile", DestPath(e))
              /\ fs' = written.fs
              /\ IF written.err # ""
                   THEN /\ runWithHandling(written.err)
                        /\ stack' = stack
                   ELSE /\ stack' = WithoutEntry(e)
                        /\ pc' = pc
                        /\ error' = error
  /\ UNCHANGED <<run, projectNameArg, cliOptions, typed, questions, pending,
                 answers, projectName, targetDir, context, template, guardOk,
                 slugVars>>

\* the loop of the innermost call is over: the call returns
CopyReturn ==
  /\ pc = "walk"
  /\ Top.entries = {}
  /\ stack' = SubSeq(stack, 1, Len(stack) - 1)
  /\ pc' = IF stack' = <<>> THEN "success" ELSE "walk"
  /\ UNCHANGED <<run, projectNameArg, cliOptions, typed, questions, pending,
                 answers, projectName, targetDir, context, template, fs, error,
                 ops, guardOk, slugVars>>

\* logSuccess, and the process ends with 0
LogSuccess ==
  /\ pc = "success"
  /\ pc' = "exit0"
  /\ UNCHANGED <<run, projectNameArg, cliOptions, typed, questions, pending,
                 answers, projectName, targetDir, context, template, fs, stack,
                 error, ops, guardOk, slugVars>>

\* the program is started again on the same command line, in the file
\* system the run before left
Rerun ==
  /\ pc \in {"exit0", "exit1"}
  /\ run < MaxRuns
  /\ run' = run + 1
  /\ pc' = "start"
  /\ typed' = NoAnswers
  /\ questions' = <<>>
  /\ pending' = <<>>
  /\ answers' = NoAnswers
  /\ projectName' = <<>>
  /\ targetDir' = <<>>
  /\ context' = NoContext
  /\ stack' = <<>>
  /\ error' = ""
  /\ ops' = NoOps
  /\ guardOk' = FALSE
  /\ UNCHANGED <<projectNameArg, cliOptions, template, fs, slugVars>>

Next ==
  \/ Start
  \/ Answer
  \/ Cancel
  \/ Resolve
  \/ Guard
  \/ Context
  \/ CopyCall
  \/ CopySkip
  \/ CopyDirectory
  \/ CopyTemplateFile
  \/ CopyRawFile
  \/ CopyReturn
  \/ LogSuccess
  \/ Rerun

Spec == Init /\ [][Next]_vars

(***************************************************************************)
(* copyTemplateTree on bounded source trees, into a destination that is    *)
(* absent or an empty directory                                            *)
(***************************************************************************)
\* the most entries a directory of a source tree holds
MaxEntries == 3

TextPlain == <<"x">>

TextKnown == <<"{","{","p","r","o","j","e","c","t","N","a","m","e","}","}">>

TextUnknown == <<"{","{","a","u","t","h","o","r","}","}">>

TextBroken == <<"{","{">>

\* the files a source tree may hold at its root, each with the texts it may
\* hold
RootFileNames == {<<"a">>, <<"a",".","h","b","s">>, <<"d",".","h","b","s">>, <<".","h","b","s">>, DS_STORE}

RootTexts(n) ==
  CASE n = <<"a">>     -> {TextPlain, TextKnown}
    [] n = <<"a",".","h","b","s">> -> {TextPlain, TextKnown, TextUnknown, TextBroken}
    [] OTHER          -> {TextPlain}

\* the one directory a source tree may hold at its root, and its files
SubDirName == <<"d">>

SubFileNames == {<<"a">>, <<"a",".","h","b","s">>, DS_STORE}

SubTexts(n) ==
  CASE n = <<"a",".","h","b","s">> -> {TextPlain, TextKnown, TextBroken}
    [] OTHER          -> {TextPlain}

AllTexts == {TextPlain, TextKnown, TextUnknown, TextBroken}

OptionalTexts == {None} \cup {Some(t) : t \in AllTexts}

\* the source tree with the root files root[n], and, when withDir, the
\* directory d with the files sub[n]
TreeOf(root, withDir, sub) ==
  LET rootFiles == {n \in RootFileNames : root[n] # None}
      subFiles  == {n \in SubFileNames : sub[n] # None}
  IN  [p \in {<<n>> : n \in rootFiles} |-> FileNode(root[p[1]][1])]
      @@ (IF withDir
            THEN (<<SubDirName>> :> DirNode)
                 @@ [p \in {<<SubDirName, n>> : n \in subFiles} |->
                       FileNode(sub[p[2]][1])]
            ELSE NoFiles)

\* the contexts createProjectFlow builds for two project names, all else
\* defaulted
CopyContexts ==
  {BuildContext([directory |-> None, pluginName |-> None,
                 description |-> None, icon |-> None], NoAnswers, n) :
     n \in {<<"d","e","m","o">>, <<"a","&","b">>}}

CopyTarget == <<<<"o","u","t">>>>

InitCopy ==
  /\ pc = "copy"
  /\ run = 1
  /\ projectNameArg = None
  /\ cliOptions = [directory |-> None, pluginName |-> None,
                   description |-> None, icon |-> None]
  /\ typed = NoAnswers
  /\ questions = <<>>
  /\ pending = <<>>
  /\ answers = NoAnswers
  /\ context \in CopyContexts
  /\ projectName = context.projectName
  /\ targetDir = CopyTarget
  /\ \E root \in [RootFileNames -> OptionalTexts], withDir \in BOOLEAN,
        sub \in [SubFileNames -> OptionalTexts] :
       /\ \A n \in RootFileNames :
            root[n] # None => root[n][1] \in RootTexts(n)
       /\ \A n \in SubFileNames :
            sub[n] # None => (withDir /\ sub[n][1] \in SubTexts(n))
       /\ Cardinality({n \in RootFileNames : root[n] # None})
            + (IF withDir THEN 1 ELSE 0) <= MaxEntries
       /\ Cardinality({n \in SubFileNames : sub[n] # None}) <= MaxEntries
       /\ template = [exists |-> TRUE, nodes |-> TreeOf(root, withDir, sub)]
  /\ fs \in {NoFiles, (CopyTarget :> DirNode)}
  /\ stack = <<>>
  /\ error = ""
  /\ ops = NoOps
  /\ guardOk = TRUE
  /\ slugPc = "unused"
  /\ slugIn = <<>>
  /\ slugOut = <<>>
  /\ slugTwice = <<>>

NextCopy ==
  \/ CopyCall
  \/ CopySkip
  \/ CopyDirectory
  \/ CopyTemplateFile
  \/ CopyRawFile
  \/ CopyReturn

SpecCopy == InitCopy /\ [][NextCopy]_vars

(***************************************************************************)
(* The image of a source tree, and the copy in one fixed order             *)
(***************************************************************************)
\* the source paths that no .DS_Store entry hides
KeptPaths(tree) ==
  {p \in DOMAIN tree : \A i \in DOMAIN p : p[i] # DS_STORE}

\* where the entry at source path p belongs under the destination: the same
\* directories, and the marker suffix taken off a file's name
ImagePath(tree, dest, p) ==
  LET last == p[Len(p)]
      name == IF tree[p].kind = "file" THEN StripHbs(last) ELSE last
  IN  dest \o SubSeq(p, 1, Len(p) - 1) \o <<name>>

\* what the entry at source path p is to be under the destination
ImageNode(tree, ctx, p) ==
  IF tree[p].kind = "dir" THEN DirNode
  ELSE IF endsWith(p[Len(p)], HBS_SUFFIX)
    THEN FileNode(Render(tree[p].data, ctx).out)
  ELSE FileNode(tree[p].data)

RECURSIVE Identifiers(_)
\* the identifiers of the placeholders of a template text
Identifiers(text) ==
  IF Len(text) < 2 THEN {}
  ELSE IF text[1] = "{" /\ text[2] = "{"
    THEN LET body  == SubSeq(text, 3, Len(text))
             close == CloseAt(body)
         IN  IF close = 0 THEN {}
             ELSE {trim(SubSeq(body, 1, close - 1))}
                  \cup Identifiers(SubSeq(body, close + 2, Len(body)))
    ELSE Identifiers(Tail(text))

\* the template files of the tree that name a placeholder the context does
\* not have
UnknownPlaceholderFiles(tree) ==
  {p \in KeptPaths(tree) :
     /\ tree[p].kind = "file"
     /\ endsWith(p[Len(p)], HBS_SUFFIX)
     /\ \E id \in Identifiers(tree[p].data) :
          \A i \in DOMAIN ContextKeys : ContextKeys[i].key # id}

RECURSIVE CopyInOrder(_, _, _, _, _)
RECURSIVE CopyLoop(_, _, _, _, _, _)
\* copyTemplateTree run to its end with the entries of every directory taken
\* in one fixed order: [err, fs]
CopyInOrder(f, tree, ctx, srcDir, destDir) ==
  LET made == mkdir(f, destDir)
  IN  IF made.err # "" THEN [err |-> made.err, fs |-> made.fs]
      ELSE CopyLoop(made.fs, tree, ctx, srcDir, destDir, readdir(tree, srcDir))

\* the loop of copyTemplateTree over the entries left
CopyLoop(f, tree, ctx, srcDir, destDir, entries) ==
  IF entries = {} THEN [err |-> "", fs |-> f]
  ELSE
    LET e    == CHOOSE x \in entries : TRUE
        rest == entries \ {e}
        node == tree[Append(srcDir, e)]
        name == IF node.kind = "file" THEN StripHbs(e) ELSE e
        dest == PathJoin(destDir, name)
    IN  IF e = DS_STORE THEN CopyLoop(f, tree, ctx, srcDir, destDir, rest)
        ELSE IF node.kind = "dir"
          THEN LET sub == CopyInOrder(f, tree, ctx, Append(srcDir, e), dest)
               IN  IF sub.err # "" THEN sub
                   ELSE CopyLoop(sub.fs, tree, ctx, srcDir, destDir, rest)
        ELSE IF node.kind = "file" /\ endsWith(e, HBS_SUFFIX)
          THEN LET output  == Render(node.data, ctx)
                   written == writeFile(f, dest, output.out)
               IN  IF output.err # "" THEN [err |-> output.err, fs |-> f]
                   ELSE IF written.err # "" THEN written
                   ELSE CopyLoop(written.fs, tree, ctx, srcDir, destDir, rest)
        ELSE LET written == writeFile(f, dest, node.data)
             IN  IF written.err # "" THEN written
                 ELSE CopyLoop(written.fs, tree, ctx, srcDir, destDir, rest)

(***************************************************************************)
(* Claims about copyTemplateTree                                           *)
(***************************************************************************)
\* C1: when copyTemplateTree completes without error into an absent or empty
\* destination, the destination tree is exactly the image of the source
\* tree: every source directory as a directory of the same name, every
\* template file under its name without the suffix and holding its
\* rendering, every other file under its name with the same bytes, no
\* .DS_Store entry, and nothing else.
C1_DestinationIsImage ==
  pc = "success" =>
    /\ \A p \in KeptPaths(template.nodes) :
         LET q == ImagePath(template.nodes, targetDir, p)
         IN  q \in DOMAIN fs /\ fs[q] = ImageNode(template.nodes, context, p)
    /\ \A q \in DOMAIN fs :
         \/ q = targetDir
         \/ \E p \in KeptPaths(template.nodes) :
              q = ImagePath(template.nodes, targetDir, p)

\* C4: when a template file of the source tree names a placeholder the
\* context does not have, no output is written for that file and the run
\* does not end in success.
C4_UnknownPlaceholderFails ==
  \A p \in UnknownPlaceholderFiles(template.nodes) :
    /\ <<"writeFile", ImagePath(template.nodes, targetDir, p)>> \notin DOMAIN ops
    /\ pc \notin {"success", "exit0"}

\* C5: during one pass the destination only grows: no path that exists is
\* removed or changed by a step, and no file path is written twice.
C5_DestinationOnlyGrows ==
  [][/\ \A p \in DOMAIN fs : p \in DOMAIN fs' /\ fs'[p] = fs[p]
     /\ \A k \in DOMAIN ops' : k[1] = "writeFile" => ops'[k] <= 1]_vars

\* C6: the order in which the entries of a directory are taken does not
\* change the result: a pass that completes leaves the tree that the pass
\* in the fixed order leaves, and a pass fails exactly when the pass in the
\* fixed order fails.  (The tree a failed pass leaves behind is not
\* compared.)
C6_OrderIndependent ==
  LET fixed == CopyInOrder(NoFiles, template.nodes, context, <<>>, targetDir)
  IN  /\ pc = "success" => (fixed.err = "" /\ fs = fixed.fs)
      /\ (pc = "exit1" /\ ops # NoOps) => fixed.err # ""

(***************************************************************************)
(* Claims about createProjectFlow                                          *)
(***************************************************************************)
\* the target directory holds at least one entry
TargetOccupied ==
  \E q \in DOMAIN fs :
    Len(q) > Len(targetDir) /\ SubSeq(q, 1, Len(targetDir)) = targetDir

\* C2: no mkdir and no writeFile is called before ensureDirectoryIsEmpty has
\* returned for the target directory, and a run whose target directory is a
\* directory that is not empty ends there with the destination error,
\* without one such call and with the file system as it was.
C2_GuardBeforeWrites ==
  [][/\ ops' # NoOps => guardOk'
     /\ (pc = "guard" /\ targetDir \in DOMAIN fs
           /\ fs[targetDir].kind = "dir" /\ TargetOccupied) =>
          /\ pc' = "exit1"
          /\ error' = "not empty"
          /\ ops' = NoOps
          /\ fs' = fs]_vars

\* the second run into the destination the first run filled has failed at
\* the guard
C2_Witness ==
  /\ run = 2
  /\ pc = "exit1"
  /\ error = "not empty"
  /\ ops = NoOps
  /\ template = OfficialTemplate
  /\ {Append(targetDir, <<"a">>), Append(targetDir, <<"u">>),
      targetDir \o <<<<"d">>, <<"c">>>>} \subseteq DOMAIN fs

\* C3: ensureDirectoryIsEmpty throws exactly when the path is no directory
\* though it exists, or is a directory with an entry of any kind; it returns
\* when the path does not exist or is an empty directory; either way the
\* file system is as it was.
C3_GuardOutcome ==
  [][pc = "guard" =>
       LET exists == targetDir \in DOMAIN fs
           isDir  == exists /\ fs[targetDir].kind = "dir"
           fails  == (exists /\ ~isDir) \/ (isDir /\ TargetOccupied)
       IN  /\ fs' = fs
           /\ fails => (pc' = "exit1" /\ ~guardOk')
           /\ ~fails => (pc' = "context" /\ guardOk' /\ error' = "")]_vars

\* the guard has refused a directory whose one entry is a hidden file
C3_Witness ==
  /\ pc = "exit1"
  /\ error = "not empty"
  /\ run = 1
  /\ readdir(fs, targetDir) = {DS_STORE}
  /\ ~guardOk

\* C7: when the user cancels at a question, the run ends at once in the
\* failure exit: the guard and copyTemplateTree are not reached, nothing is
\* created or written, and nothing more happens in that run.
C7_CancelAborts ==
  [][/\ (pc = "prompt" /\ pending' = pending /\ run' = run) =>
          /\ pc' = "exit1"
          /\ error' = "Operation cancelled."
          /\ ~guardOk'
          /\ targetDir' = <<>>
          /\ ops' = NoOps
          /\ fs' = fs
     /\ error = "Operation cancelled." => run' # run]_vars

\* the user has cancelled after answering the first question
C7_Witness ==
  /\ pc = "exit1"
  /\ error = "Operation cancelled."
  /\ answers.projectName # None
  /\ pending # <<>>
  /\ ops = NoOps

\* the flag of a context field
FlagOf(f) ==
  CASE f = "pluginName"        -> cliOptions.pluginName
    [] f = "pluginDescription" -> cliOptions.description
    [] f = "pluginIcon"        -> cliOptions.icon

\* C8: each of pluginName, pluginDescription and pluginIcon is, in the
\* context, the flag when one was given, else what the user answered when
\* they answered, else the default (toDisplayName(projectName), the fixed
\* description, "null"); and a question is asked only for a field whose flag
\* was not given.
C8_ContextPrecedence ==
  \A f \in {"pluginName", "pluginDescription", "pluginIcon"} :
    /\ (\E i \in DOMAIN questions : questions[i] = f) => FlagOf(f) = None
    /\ pc \in {"copy", "walk", "success", "exit0"} =>
         context[f] =
           IF FlagOf(f) # None THEN FlagOf(f)[1]
           ELSE IF typed[f] # None /\ typed[f][1] # <<>> THEN typed[f][1]
           ELSE CASE f = "pluginName"        -> toDisplayName(projectName)
                  [] f = "pluginDescription" -> DEFAULT_DESCRIPTION
                  [] f = "pluginIcon"        -> <<"n","u","l","l">>

(***************************************************************************)
(* toSlug applied to bounded inputs, once and then to its own result       *)
(***************************************************************************)
MaxSlugLen == 3

SlugAlphabet == {"a", "B", "1", " ", "-", "!"}

RECURSIVE StringsUpTo(_, _)
StringsUpTo(cs, n) ==
  IF n = 0 THEN {<<>>}
  ELSE LET shorter == StringsUpTo(cs, n - 1)
       IN  shorter \cup {Append(s, c) : s \in shorter, c \in cs}

SlugInputs == StringsUpTo(SlugAlphabet, MaxSlugLen)

InitSlug ==
  /\ slugPc = "input"
  /\ slugIn \in SlugInputs
  /\ slugOut = <<>>
  /\ slugTwice = <<>>
  /\ pc = "unused"
  /\ run = 1
  /\ projectNameArg = None
  /\ cliOptions = [directory |-> None, pluginName |-> None,
                   description |-> None, icon |-> None]
  /\ typed = NoAnswers
  /\ questions = <<>>
  /\ pending = <<>>
  /\ answers = NoAnswers
  /\ projectName = <<>>
  /\ targetDir = <<>>
  /\ context = NoContext
  /\ template = MissingTemplate
  /\ fs = NoFiles
  /\ stack = <<>>
  /\ error = ""
  /\ ops = NoOps
  /\ guardOk = FALSE

SlugOnce ==
  /\ slugPc = "input"
  /\ slugOut' = toSlug(slugIn)
  /\ slugPc' = "once"
  /\ UNCHANGED <<slugIn, slugTwice, flowVars>>

SlugAgain ==
  /\ slugPc = "once"
  /\ slugTwice' = toSlug(slugOut)
  /\ slugPc' = "twice"
  /\ UNCHANGED <<slugIn, slugOut, flowVars>>

NextSlug == SlugOnce \/ SlugAgain

SpecSlug == InitSlug /\ [][NextSlug]_vars

\* the regular expression ^[a-z0-9]+(-[a-z0-9]+)*$
MatchesSlugPattern(s) ==
  /\ s # <<>>
  /\ \A i \in DOMAIN s : IsSlugChar(s[i]) \/ s[i] = "-"
  /\ IsSlugChar(s[1])
  /\ IsSlugChar(s[Len(s)])
  /\ \A i \in 1..(Len(s) - 1) : ~(s[i] = "-" /\ s[i + 1] = "-")

\* C9: for every non-empty input s, toSlug(s) is non-empty and either
\* matches ^[a-z0-9]+(-[a-z0-9]+)*$ or equals the fallback slug.
C9_SlugWellFormed ==
  (slugPc # "input" /\ slugIn # <<>>) =>
    /\ slugOut # <<>>
    /\ \/ MatchesSlugPattern(slugOut)
       \/ slugOut = <<"s","n","a","i","l","-","p","l","u","g","i","n">>

\* an input with leading and trailing punctuation and an inner run has been
\* slugged
C9_Witness ==
  /\ slugPc = "once"
  /\ slugIn = <<"!", "B", "-">>
  /\ slugOut = <<"b">>

\* C10: toSlug(toSlug(x)) = toSlug(x) for every x, the inputs that fall back
\* included.
C10_SlugIdempotent ==
  slugPc = "twice" => slugTwice = slugOut

\* an input that normalises to the fallback slug has been slugged twice
C10_Witness ==
  /\ slugPc = "twice"
  /\ slugIn = <<" ", "!", "-">>
  /\ slugOut = <<"s","n","a","i","l","-","p","l","u","g","i","n">>

====
